---- MODULE Spec2Model ----
(***************************************************************************)
(* Model of the validation / fix orchestration of vscode-phpsab:           *)
(*   src/src/sniffer.ts lines 322-717  (sniffer: validate, refresh,        *)
(*                                       listeners, snifferVersion)        *)
(*   src/src/sniffer.ts lines 719-1048 (fixer: getArgs, format, provider)  *)
(*   src/src/errors.ts                 (exit codes, disabled standard)     *)
(*                                                                         *)
(* The host is single threaded: an event handler runs to its first await,  *)
(* continuations of already settled promises run as microtasks before the  *)
(* next event, and real asynchronous work (loadSettings, the standards     *)
(* path resolver, the subprocess) completes as a later event.              *)
(***************************************************************************)
EXTENDS Integers, Sequences, FiniteSets, TLC

\* ------------------------------------------------------------------ bounds
MaxJobs == 3
MaxDelay == 2
MaxConfigChanges == 1
MaxPos == 1
MaxMsgs == 1
MaxLen == 2
MaxReportPos == 3
MaxReportMsgs == 2
MaxArgs == 2

Docs == {"d1", "d2"}
DocOrder == <<"d1", "d2">>

VARIABLES
    settingsCache,          \* sniffer.ts:357  let settingsCache
    subscribed,             \* sniffer.ts:677  the handlers activateSniffer registers
    textDocuments,          \* workspace.textDocuments: the open documents
    diagnosticCollection,   \* sniffer.ts:358  per document entry
    runnerCancellations,    \* sniffer.ts:369  document -> runner (0: no entry)
    runners,                \* every CancellationTokenSource validate created, in order
    validatorListener,      \* sniffer.ts:364  index into listeners (0: undefined)
    listeners,              \* every listener setValidatorListener registered, in order
    microtasks,             \* continuations of settled awaits, run before the next event
    loads,                  \* loadSettings() calls of onConfigChange still in flight
    configChanges,          \* number of configuration change events so far
    last                    \* what the step just taken did (NoEvent after any other step)

vars == <<settingsCache, subscribed, textDocuments, diagnosticCollection,
          runnerCancellations, runners, validatorListener, listeners, microtasks,
          loads, configChanges, last>>

\* ---------------------------------------------------------------- settings
Modes == {"onSave", "onType"}

\* The configured debounce delay, in units of time: one value, long enough for
\* an edit to arrive while the timer is running.
Delays == {MaxDelay}

Settings == [snifferMode : Modes, snifferTypeDelay : Delays, snifferEnable : BOOLEAN]

NoSettings == [snifferMode |-> "undefined", snifferTypeDelay |-> 0, snifferEnable |-> FALSE]

\* ------------------------------------------------------------- the report
Msgs == [line : 1..MaxPos, column : 1..MaxPos]

RECURSIVE SeqsUpTo(_, _)
SeqsUpTo(S, n) ==
    IF n = 0 THEN {<<>>}
    ELSE LET shorter == SeqsUpTo(S, n - 1)
         IN  shorter \cup {Append(s, x) : s \in shorter, x \in S}

Reports == SeqsUpTo(Msgs, MaxMsgs)

\* What the validator wrote to stdout: nothing, a JSON report (throws: a file
\* entry after the listed messages has no messages array, so the loop throws
\* there), or text that is no JSON (noSniffs: it holds "No sniffs were registered").
Stdouts ==
    {[kind |-> "empty", messages |-> <<>>, throws |-> FALSE, noSniffs |-> FALSE]}
    \cup [kind : {"json"}, messages : Reports, throws : BOOLEAN, noSniffs : {FALSE}]
    \cup [kind : {"text"}, messages : {<<>>}, throws : {TRUE}, noSniffs : BOOLEAN]

\* Mutant of ToDiagnostic: the one-based position of the report is kept.
ToDiagnosticOneBased(m) == [line |-> m.line, character |-> m.column]

\* The position of the diagnostic of one message (lines 527-535).
ToDiagnostic(m) == [line |-> m.line - 1, character |-> m.column - 1]

ParseDiagnostics(stdout) == [i \in 1..Len(stdout.messages) |-> ToDiagnostic(stdout.messages[i])]

NoEntry == [has |-> FALSE, items |-> <<>>]

\* ------------------------------------------------- errors.ts: the standard
\* The attribute texts isStandardDisabled looks for in the ruleset file.
Attributes == {"phpcs-only=\"true\"", "phpcs-only=\"false\"",
               "phpcbf-only=\"true\"", "phpcbf-only=\"false\""}

\* A resolved standard: its path ("" when none was resolved), whether the file
\* exists, whether reading it throws, and which attribute texts it contains.
Standards ==
    {[path |-> "", exists |-> FALSE, readThrows |-> FALSE, content |-> {}],
     [path |-> "phpcs.xml", exists |-> FALSE, readThrows |-> FALSE, content |-> {}],
     [path |-> "phpcs.xml", exists |-> TRUE, readThrows |-> TRUE, content |-> {}]}
    \cup [path : {"phpcs.xml"}, exists : {TRUE}, readThrows : {FALSE},
          content : SUBSET Attributes]

HasNoSniffsError(stdoutHas, stderrHas) == stdoutHas \/ stderrHas

\* Mutant of DisablingAttributes: each tool looks for the other tool's attributes.
DisablingAttributesSwapped(type) ==
    IF type = "phpcbf" THEN {"phpcs-only=\"false\"", "phpcbf-only=\"true\""}
    ELSE IF type = "phpcs" THEN {"phpcs-only=\"true\"", "phpcbf-only=\"false\""}
    ELSE {}

\* The attributes that disable the tool (lines 167-175).
DisablingAttributes(type) ==
    IF type = "phpcs" THEN {"phpcs-only=\"false\"", "phpcbf-only=\"true\""}
    ELSE IF type = "phpcbf" THEN {"phpcs-only=\"true\"", "phpcbf-only=\"false\""}
    ELSE {}

\* Mutant of IsStandardDisabled: a ruleset file that cannot be read counts as
\* disabling the tool.
IsStandardDisabledFailClosed(standard, type, stdoutHas, stderrHas) ==
    IF standard.path = "" THEN FALSE
    ELSE IF standard.exists /\ standard.readThrows
         THEN HasNoSniffsError(stdoutHas, stderrHas)
    ELSE LET isDisabled == /\ standard.exists
                           /\ DisablingAttributes(type) \cap standard.content # {}
         IN  isDisabled /\ HasNoSniffsError(stdoutHas, stderrHas)

\* isStandardDisabled (lines 152-195): no path (157-159), a read that throws
\* (189-194), the attribute search in an existing file (161-178) and the output
\* check (181-187).
IsStandardDisabled(standard, type, stdoutHas, stderrHas) ==
    IF standard.path = "" THEN FALSE
    ELSE IF standard.exists /\ standard.readThrows THEN FALSE
    ELSE LET isDisabled == /\ standard.exists
                           /\ DisablingAttributes(type) \cap standard.content # {}
         IN  isDisabled /\ HasNoSniffsError(stdoutHas, stderrHas)

\* ------------------------------------------------------ sniffer.ts: runners
\* A CancellationTokenSource of validate (line 458) with the run it belongs to.
\* superseded is history kept for the claims: a later run was registered for the
\* same document while this one was in flight.
NewRunner(d) ==
    [doc |-> d, phase |-> "resolving", cancelled |-> FALSE, disposed |-> FALSE,
     superseded |-> FALSE]

\* The record of a step: a close handler's run (op "close": the runner, whether
\* its token was cancelled, what stdout held, how the promise ended, the message
\* shown), an invocation by a debounce timer (op "timer"; disposed: the listener
\* the debounced function was registered with has been disposed), or a call of
\* refresh (op "refresh"; kind: the caller; docs: the documents whose
\* diagnostics it cleared).
NoEvent ==
    [op |-> "none", runner |-> 0, doc |-> "none", cancelled |-> FALSE, disposed |-> FALSE,
     superseded |-> FALSE, kind |-> "none",
     outcome |-> "none", shown |-> "none", published |-> FALSE, before |-> NoEntry,
     gap |-> 0, wait |-> 0, docs |-> {}, restarted |-> FALSE, runs |-> 0]

\* A runner whose close handler has run and that the map no longer holds is
\* unreachable: nothing reads it again, and the model forgets what it was.
Collected ==
    [doc |-> "none", phase |-> "collected", cancelled |-> FALSE, disposed |-> FALSE,
     superseded |-> FALSE]

\* Mutant of CancelOldRunner: the registered runner is left as it is.
CancelOldRunnerSkipped(rs, d) == rs

\* validate, lines 452-456: cancel and dispose the runner registered for d.
CancelOldRunner(rs, d) ==
    LET oldRunner == runnerCancellations[d]
    IN  IF oldRunner = 0 THEN rs
        ELSE IF rs[oldRunner].phase = "closed" THEN [rs EXCEPT ![oldRunner] = Collected]
        ELSE [rs EXCEPT ![oldRunner].cancelled = TRUE, ![oldRunner].disposed = TRUE]

MarkSuperseded(rs, d) ==
    [j \in 1..Len(rs) |->
        IF rs[j].doc = d /\ rs[j].phase \in {"resolving", "running"}
        THEN [rs[j] EXCEPT !.superseded = TRUE]
        ELSE rs[j]]

\* validate up to its first await (lines 426-431): every document of the model
\* lies in the workspace folder, so the call always reaches `await getSettings()`.
ValidateCall(q, d) == Append(q, [op |-> "validate", doc |-> d])

\* validate from `await getSettings()` to `await ...resolve()` (lines 431-465).
ValidateRegister(d) ==
    IF ~settingsCache.snifferEnable
    THEN UNCHANGED <<runners, runnerCancellations>>
    ELSE /\ runners' = Append(MarkSuperseded(CancelOldRunner(runners, d), d), NewRunner(d))
         /\ runnerCancellations' = [runnerCancellations EXCEPT ![d] = Len(runners) + 1]

RECURSIVE ForEachValidate(_, _, _)
ForEachValidate(q, open, i) ==
    IF i > Len(DocOrder) THEN q
    ELSE ForEachValidate(IF DocOrder[i] \in open THEN ValidateCall(q, DocOrder[i]) ELSE q,
                         open, i + 1)

\* Mutant of RefreshDiagnostics: refresh leaves the published entries alone.
RefreshDiagnosticsKept == diagnosticCollection

\* refresh (lines 598-602): clear every entry, then validate every open document.
RefreshDiagnostics == [d \in Docs |-> NoEntry]

RefreshQueue(q) == ForEachValidate(q, textDocuments, 1)

RefreshEvent(kind) ==
    [NoEvent EXCEPT !.op = "refresh", !.kind = kind,
                    !.docs = {d \in Docs : diagnosticCollection[d].has}]

\* ---------------------------------------------------- sniffer.ts: listeners
SaveListener ==
    [kind |-> "save", disposed |-> FALSE, wait |-> 0, pending |-> FALSE,
     lastArgs |-> "none", elapsed |-> 0, sinceEdit |-> 0, burstDocs |-> {},
     burstRestarted |-> FALSE, burstRuns |-> 0]

\* lodash debounce(func, delay) with the default trailing edge (lines 625-630):
\* pending, lastArgs and elapsed are the state of the debounced function.
\* sinceEdit, burstDocs, burstRestarted and burstRuns record, for the claims, the
\* time since the last call, the documents of the calls of the current burst,
\* whether one of its calls found the timer already running for some time, and
\* the number of invocations it led to; a burst begins with a call that finds no
\* timer pending.
TypeListener(delay) == [SaveListener EXCEPT !.kind = "type", !.wait = delay]

\* Mutant of DebouncedCall: a call that finds the timer pending does not restart it.
DebouncedCallNoRestart(l, d) ==
    [l EXCEPT !.pending = TRUE, !.lastArgs = d, !.sinceEdit = 0,
              !.elapsed = IF l.pending THEN l.elapsed ELSE 0,
              !.burstDocs = IF l.pending THEN l.burstDocs \cup {d} ELSE {d},
              !.burstRestarted = l.pending /\ (l.burstRestarted \/ l.sinceEdit > 0),
              !.burstRuns = IF l.pending THEN l.burstRuns ELSE 0]

\* A call of the debounced function: the arguments are kept, the timer restarts.
DebouncedCall(l, d) ==
    [l EXCEPT !.pending = TRUE, !.lastArgs = d, !.elapsed = 0, !.sinceEdit = 0,
              !.burstDocs = IF l.pending THEN l.burstDocs \cup {d} ELSE {d},
              !.burstRestarted = l.pending /\ (l.burstRestarted \/ l.sinceEdit > 0),
              !.burstRuns = IF l.pending THEN l.burstRuns ELSE 0]

\* The timer of a debounced function expires: func(lastArgs) is invoked once and
\* the arguments are dropped.
DebouncedInvoke(l) ==
    [l EXCEPT !.pending = FALSE, !.lastArgs = "none", !.elapsed = 0, !.sinceEdit = 0,
              !.burstDocs = {}, !.burstRestarted = FALSE, !.burstRuns = l.burstRuns + 1]

PendingTimers == {i \in 1..Len(listeners) : listeners[i].pending}

ActiveListeners(kind) ==
    {i \in 1..Len(listeners) : listeners[i].kind = kind /\ ~listeners[i].disposed}

\* Mutant of DisposeListener: the listener in place is not disposed.
DisposeListenerSkipped(ls) == ls

\* setValidatorListener up to `await getSettings()` (lines 616-620).
DisposeListener(ls) ==
    IF validatorListener # 0 THEN [ls EXCEPT ![validatorListener].disposed = TRUE] ELSE ls

\* setValidatorListener after the await (lines 621-634).
RegisterListener ==
    /\ listeners' = Append(listeners,
                           IF settingsCache.snifferMode = "onType"
                           THEN TypeListener(settingsCache.snifferTypeDelay)
                           ELSE SaveListener)
    /\ validatorListener' = Len(listeners) + 1

\* Room for n more runners within MaxJobs, every pending timer keeping one.
Room(n) == Len(runners) + Cardinality(PendingTimers) + n <= MaxJobs

\* The host is between two events: no continuation is queued and the handler
\* of the previous event has returned.
Idle == microtasks = <<>> /\ last = NoEvent

\* What isStandardDisabled(standard, 'phpcs', stdout, stderr) can return at lines
\* 508 and 568 for a given stdout, over the standards and the stderr texts.
DisabledResults ==
    [stdoutHas \in BOOLEAN |->
        {IsStandardDisabled(standard, "phpcs", stdoutHas, stderrHas) :
            standard \in Standards, stderrHas \in BOOLEAN}]

\* ------------------------------------------------------------------- Init
\* The module has been loaded and activateSniffer has not run yet: the extension
\* is activated by the first PHP document, which is open.
Init ==
    /\ settingsCache = NoSettings
    /\ subscribed = FALSE
    /\ textDocuments = {"d1"}
    /\ diagnosticCollection = [d \in Docs |-> NoEntry]
    /\ runnerCancellations = [d \in Docs |-> 0]
    /\ runners = <<>>
    /\ validatorListener = 0
    /\ listeners = <<>>
    /\ microtasks = <<>>
    /\ loads = <<>>
    /\ configChanges = 0
    /\ last = NoEvent

\* ---------------------------------------------------------------- actions
\* activateSniffer (lines 666-688).
Activate(settings) ==
    /\ settingsCache = NoSettings
    /\ settingsCache' = settings
    /\ IF ~settings.snifferEnable
       THEN /\ last' = NoEvent
            /\ UNCHANGED <<subscribed, diagnosticCollection, microtasks>>
       ELSE /\ Room(Cardinality(textDocuments))
            /\ subscribed' = TRUE
            /\ diagnosticCollection' = RefreshDiagnostics
            /\ microtasks' = Append(RefreshQueue(microtasks), [op |-> "listener", doc |-> "none"])
            /\ last' = RefreshEvent("activate")
    /\ UNCHANGED <<textDocuments, runnerCancellations, runners, validatorListener,
                   listeners, loads, configChanges>>

\* workspace.onDidOpenTextDocument(validate) (line 678).
OpenDoc(d) ==
    /\ subscribed /\ Idle /\ Room(1)
    /\ d \notin textDocuments
    /\ textDocuments' = textDocuments \cup {d}
    /\ microtasks' = ValidateCall(microtasks, d)
    /\ last' = NoEvent
    /\ UNCHANGED <<settingsCache, subscribed, diagnosticCollection,
                   runnerCancellations, runners, validatorListener, listeners, loads,
                   configChanges>>

\* workspace.onDidCloseTextDocument(clearDocumentDiagnostics) (lines 609-611, 679).
CloseDoc(d) ==
    /\ subscribed /\ Idle
    /\ d \in textDocuments
    /\ textDocuments' = textDocuments \ {d}
    /\ diagnosticCollection' = [diagnosticCollection EXCEPT ![d] = NoEntry]
    /\ last' = NoEvent
    /\ UNCHANGED <<settingsCache, subscribed, runnerCancellations, runners,
                   validatorListener, listeners, microtasks, loads, configChanges>>

\* A document is saved: every registered onDidSaveTextDocument listener runs
\* validate (line 633).
SaveDoc(d) ==
    /\ subscribed /\ Idle
    /\ d \in textDocuments
    /\ ActiveListeners("save") # {}
    /\ Room(Cardinality(ActiveListeners("save")))
    /\ microtasks' = [i \in 1..Cardinality(ActiveListeners("save")) |->
                        [op |-> "validate", doc |-> d]]
    /\ last' = NoEvent
    /\ UNCHANGED <<settingsCache, subscribed, textDocuments, diagnosticCollection,
                   runnerCancellations, runners, validatorListener,
                   listeners, loads, configChanges>>

\* A document is edited: every registered onDidChangeTextDocument listener calls
\* its debounced validator (line 631).
EditDoc(d) ==
    /\ subscribed /\ Idle
    /\ d \in textDocuments
    /\ ActiveListeners("type") # {}
    /\ listeners' = [i \in 1..Len(listeners) |->
                        IF i \in ActiveListeners("type")
                        THEN DebouncedCall(listeners[i], d)
                        ELSE listeners[i]]
    /\ Len(runners) + Cardinality(PendingTimers \cup ActiveListeners("type")) <= MaxJobs
    /\ last' = NoEvent
    /\ UNCHANGED <<settingsCache, subscribed, textDocuments, diagnosticCollection,
                   runnerCancellations, runners, validatorListener,
                   microtasks, loads, configChanges>>

\* Time passes by one unit; a timer that is due expires first.
Tick ==
    /\ Idle
    /\ PendingTimers # {}
    /\ \A i \in PendingTimers : listeners[i].elapsed < listeners[i].wait
    /\ listeners' = [i \in 1..Len(listeners) |->
                        IF i \in PendingTimers
                        THEN [listeners[i] EXCEPT !.elapsed = @ + 1, !.sinceEdit = @ + 1]
                        ELSE listeners[i]]
    /\ last' = NoEvent
    /\ UNCHANGED <<settingsCache, subscribed, textDocuments, diagnosticCollection,
                   runnerCancellations, runners, validatorListener,
                   microtasks, loads, configChanges>>

\* The timer of a debounced validator expires (lines 625-630): validate(document).
TimerExpired(i) ==
    /\ Idle
    /\ i \in PendingTimers
    /\ listeners[i].elapsed >= listeners[i].wait
    /\ listeners' = [listeners EXCEPT ![i] = DebouncedInvoke(listeners[i])]
    /\ microtasks' = ValidateCall(microtasks, listeners[i].lastArgs)
    /\ last' = [NoEvent EXCEPT !.op = "timer", !.doc = listeners[i].lastArgs,
                                !.disposed = listeners[i].disposed,
                                !.gap = listeners[i].sinceEdit,
                                !.wait = listeners[i].wait,
                                !.docs = listeners[i].burstDocs,
                                !.restarted = listeners[i].burstRestarted,
                                !.runs = listeners'[i].burstRuns]
    /\ UNCHANGED <<settingsCache, subscribed, textDocuments, diagnosticCollection,
                   runnerCancellations, runners, validatorListener,
                   loads, configChanges>>

\* onConfigChange up to `await loadSettings()` (lines 642-646), for an event
\* that affects 'phpsab'.
ConfigChange(settings) ==
    /\ subscribed /\ Idle
    /\ configChanges < MaxConfigChanges
    /\ configChanges' = configChanges + 1
    /\ LET previous == IF loads = <<>> THEN settingsCache ELSE loads[Len(loads)].settings
       IN  loads' = Append(loads,
                [settings |-> settings,
                 affectsListener |->
                    \/ settings.snifferMode # previous.snifferMode
                    \/ settings.snifferTypeDelay # previous.snifferTypeDelay])
    /\ last' = NoEvent
    /\ UNCHANGED <<settingsCache, subscribed, textDocuments, diagnosticCollection,
                   runnerCancellations, runners, validatorListener,
                   listeners, microtasks>>

\* onConfigChange after `await loadSettings()` (lines 646-655).
LoadSettingsDone(i) ==
    /\ Idle
    /\ i \in 1..Len(loads)
    /\ Room(Cardinality(textDocuments))
    /\ settingsCache' = loads[i].settings
    /\ loads' = [k \in 1..(Len(loads) - 1) |-> IF k < i THEN loads[k] ELSE loads[k + 1]]
    /\ IF loads[i].affectsListener
       THEN /\ listeners' = DisposeListener(listeners)
            /\ microtasks' = RefreshQueue(Append(microtasks, [op |-> "listener", doc |-> "none"]))
       ELSE /\ UNCHANGED listeners
            /\ microtasks' = RefreshQueue(microtasks)
    /\ diagnosticCollection' = RefreshDiagnostics
    /\ last' = RefreshEvent("config")
    /\ UNCHANGED <<subscribed, textDocuments, runnerCancellations, runners,
                   validatorListener, configChanges>>

\* workspace.onDidChangeWorkspaceFolders(refresh) (line 684).
FoldersChange ==
    /\ subscribed /\ Idle
    /\ Room(Cardinality(textDocuments))
    /\ diagnosticCollection' = RefreshDiagnostics
    /\ microtasks' = RefreshQueue(microtasks)
    /\ last' = RefreshEvent("folders")
    /\ UNCHANGED <<settingsCache, subscribed, textDocuments, runnerCancellations,
                   runners, validatorListener, listeners, loads, configChanges>>

\* The continuation at the head of the microtask queue runs.
RunMicrotask ==
    /\ microtasks # <<>>
    /\ last = NoEvent
    /\ microtasks' = Tail(microtasks)
    /\ IF Head(microtasks).op = "validate"
       THEN /\ ValidateRegister(Head(microtasks).doc)
            /\ UNCHANGED <<validatorListener, listeners>>
       ELSE /\ RegisterListener
            /\ UNCHANGED <<runners, runnerCancellations>>
    /\ last' = NoEvent
    /\ UNCHANGED <<settingsCache, subscribed, textDocuments, diagnosticCollection,
                   loads, configChanges>>

\* validate after `await ...resolve()` (lines 466-496): the subprocess is
\* spawned, whatever the state of the runner's token.
Spawn(j) ==
    /\ Idle
    /\ j \in 1..Len(runners)
    /\ runners[j].phase = "resolving"
    /\ runners' = [runners EXCEPT ![j].phase = "running"]
    /\ last' = NoEvent
    /\ UNCHANGED <<settingsCache, subscribed, textDocuments, diagnosticCollection,
                   runnerCancellations, validatorListener, listeners,
                   microtasks, loads, configChanges>>

\* Mutant of SkipsReport: the token is not looked at.
SkipsReportIgnoringToken(runner, stdout) == stdout.kind = "empty"

\* The test of line 507: the handler returns without reading the report.
SkipsReport(runner, stdout) == runner.cancelled \/ stdout.kind = "empty"

\* What the 'close' handler (lines 506-581) does for a runner, a stdout and the
\* answer of isStandardDisabled: how the promise ends, the message it shows and
\* whether it writes the document's diagnostics.
CloseOutcome(runner, stdout, disabled) ==
    IF SkipsReport(runner, stdout)
    THEN [outcome |-> "silent", shown |-> IF disabled THEN "disabled" ELSE "none",
          published |-> FALSE]
    ELSE [outcome |-> IF stdout.throws THEN "rejected" ELSE "resolved",
          shown |-> IF ~stdout.throws THEN "none"
                    ELSE IF disabled THEN "disabled" ELSE "error",
          published |-> TRUE]

\* The 'close' handler of the subprocess (lines 497-584).
\* outcome: "silent" the early return of line 519, "resolved" / "rejected" the
\* promise after the report was parsed; shown: the message given to
\* window.showErrorMessage ("disabled": getStandardDisabledErrorMsg's);
\* disabled: what isStandardDisabled returned for this run.
ProcessClose(j, stdout, disabled) ==
    /\ Idle
    /\ j \in 1..Len(runners)
    /\ runners[j].phase = "running"
    /\ LET doc == runners[j].doc
           event == [NoEvent EXCEPT !.op = "close", !.runner = j, !.doc = doc,
                                    !.cancelled = runners[j].cancelled,
                                    !.superseded = runners[j].superseded,
                                    !.kind = stdout.kind,
                                    !.before = diagnosticCollection[doc]]
       IN  IF SkipsReport(runners[j], stdout)
           THEN /\ runners' = [runners EXCEPT
                        ![j] = IF runnerCancellations[doc] = j
                               THEN [@ EXCEPT !.phase = "closed"]
                               ELSE Collected]
                /\ last' = [event EXCEPT
                        !.outcome = CloseOutcome(runners[j], stdout, disabled).outcome,
                        !.shown = CloseOutcome(runners[j], stdout, disabled).shown]
                /\ UNCHANGED <<diagnosticCollection, runnerCancellations>>
           ELSE /\ runners' = [runners EXCEPT ![j] = Collected]
                /\ last' = [event EXCEPT
                        !.outcome = CloseOutcome(runners[j], stdout, disabled).outcome,
                        !.shown = CloseOutcome(runners[j], stdout, disabled).shown,
                        !.published = CloseOutcome(runners[j], stdout, disabled).published]
                /\ diagnosticCollection' = [diagnosticCollection EXCEPT
                        ![doc] = [has |-> TRUE, items |-> ParseDiagnostics(stdout)]]
                /\ runnerCancellations' = [runnerCancellations EXCEPT ![doc] = 0]
    /\ UNCHANGED <<settingsCache, subscribed, textDocuments, validatorListener,
                   listeners, microtasks, loads, configChanges>>

\* The handler whose run `last` records returns to the host.
HandlerReturns ==
    /\ last # NoEvent
    /\ last' = NoEvent
    /\ UNCHANGED <<settingsCache, subscribed, textDocuments, diagnosticCollection,
                   runnerCancellations, runners, validatorListener, listeners,
                   microtasks, loads, configChanges>>

Next ==
    \/ \E s \in Settings : Activate(s)
    \/ \E d \in Docs : OpenDoc(d)
    \/ \E d \in Docs : CloseDoc(d)
    \/ \E d \in Docs : SaveDoc(d)
    \/ \E d \in Docs : EditDoc(d)
    \/ Tick
    \/ \E i \in 1..Len(listeners) : TimerExpired(i)
    \/ \E s \in Settings : ConfigChange(s)
    \/ \E i \in 1..Len(loads) : LoadSettingsDone(i)
    \/ FoldersChange
    \/ RunMicrotask
    \/ \E j \in 1..Len(runners) : Spawn(j)
    \/ \E j \in 1..Len(runners), stdout \in Stdouts :
          \E disabled \in DisabledResults[stdout.noSniffs] : ProcessClose(j, stdout, disabled)
    \/ HandlerReturns

Spec == Init /\ [][Next]_vars

\* ------------------------------------------------- errors.ts: exit codes
\* A JavaScript value used as an exit code: null, a number, or a string holding
\* the decimal text of v ('-1'). As a property key both a number and a string
\* stand for the same text. Threw: the promise that should yield it rejected.
Null == [t |-> "null", v |-> 0]
Num(n) == [t |-> "number", v |-> n]
Str(n) == [t |-> "string", v |-> n]
Threw == [t |-> "threw", v |-> 0]

KeyOf(value) == value.v

\* errorMsgs (lines 31-45). Line 135 rewrites the entry of 0 for good the first
\* time getErrorMsg is called for the fixer: zeroUpdated says that has happened.
ErrorMsgKeys == {-1, 0, 1, 2, 3, 4, 5, 7, 16}

ErrorMsgs(zeroUpdated) ==
    [k \in ErrorMsgKeys |->
        CASE k = -1 -> ""
          [] k = 0 -> IF zeroUpdated THEN "No errors were found or all errors were fixed"
                      ELSE "No errors were found"
          [] k = 1 -> "Auto-fixable errors were found"
          [] k = 2 -> "Non-auto-fixable errors were found"
          [] k = 3 -> "Auto-fixable and non-auto-fixable errors were found"
          [] k = 4 -> "Failed to fix some files or conflict between sniffs"
          [] k = 5 -> "Failed to fix some auto-fixable errors"
          [] k = 7 -> "Failed to fix some auto-fixable errors with a mixture of non-auto-fixable"
          [] OTHER -> "Processing error"]

\* map4xStatusFromErrors (lines 56-64): Number('-1') is not NaN, so the key '-1'
\* is mapped to the number -1 like every other key.
Map4xStatusFromErrors == [k \in ErrorMsgKeys |-> Num(k)]

\* Mutant of Map3xStatus: the fixer's codes are read like the validator's.
Map3xStatusSameForFixer(type) ==
    [k \in {-1, 0, 1, 2, 3} |->
        CASE k = -1 -> Str(-1)
          [] k = 0 -> Num(0)
          [] k = 1 -> Num(2)
          [] k = 2 -> Num(1)
          [] OTHER -> Num(16)]

\* The 3.x table of getMappedExitCode (lines 100-112).
Map3xStatus(type) ==
    [k \in {-1, 0, 1, 2, 3} |->
        CASE k = -1 -> Str(-1)
          [] k = 0 -> Num(0)
          [] k = 1 -> IF type = "fixer" THEN Num(0) ELSE Num(2)
          [] k = 2 -> IF type = "fixer" THEN Num(5) ELSE Num(1)
          [] OTHER -> Num(16)]

\* What snifferVersion (lines 690-717) sees: whether there is an active text
\* editor, whether its document lies in a workspace folder, and the major number
\* of the semantic version in the output of `phpcs --version` (0: the output
\* holds no semantic version).
Editors == [active : BOOLEAN, inFolder : BOOLEAN, major : {0, 3, 4, 5}]

\* snifferVersion (lines 690-717): without an active editor `document.uri` throws;
\* outside a workspace folder it returns undefined; otherwise the version text,
\* '' when the output holds none. major is the number before the first dot.
SnifferVersion(editor) ==
    IF ~editor.active THEN [kind |-> "threw", major |-> 0]
    ELSE IF ~editor.inFolder THEN [kind |-> "undefined", major |-> 0]
    ELSE [kind |-> "string", major |-> editor.major]

VersionResults == {SnifferVersion(editor) : editor \in Editors}

\* getMappedExitCode (lines 73-118).
GetMappedExitCode(version, code, type) ==
    LET given == IF code = Null THEN Str(-1) ELSE code
        status == IF version.major = 4 THEN Map4xStatusFromErrors
                  ELSE IF version.major = 3 THEN Map3xStatus(type)
                  ELSE <<>>
    IN  IF version.kind = "threw" THEN Threw
        ELSE IF version.kind = "undefined" THEN given
        ELSE IF KeyOf(given) \in DOMAIN status THEN status[KeyOf(given)]
        ELSE given

\* getMappedExitCode logs 'Unable to determine sniffer version' (lines 83-86):
\* only when snifferVersion returned undefined.
LogsUndeterminedVersion(version) == version.kind = "undefined"

\* getErrorMsg (lines 129-139); "undefined" when errorMsgs has no such key.
GetErrorMsg(status, type, zeroUpdated) ==
    IF KeyOf(status) \in ErrorMsgKeys
    THEN ErrorMsgs(zeroUpdated \/ type = "fixer")[KeyOf(status)]
    ELSE "undefined"

\* -------------------------------------------------------- sniffer.ts: fixer
\* Texts are sequences of characters; "N" stands for the sentence
\* "No sniffs were registered" and "\n" is the only whitespace character used.
Chars == {"a", "\n"}
Whitespace == {"\n"}
NoSniffsText == "N"

FileTexts == SeqsUpTo(Chars, MaxLen)
FixerStdouts == FileTexts \cup {<<NoSniffsText>>}
FixerStderrs == {<<>>, <<NoSniffsText>>}

RECURSIVE TrimStart(_)
TrimStart(s) ==
    IF s # <<>> /\ Head(s) \in Whitespace THEN TrimStart(Tail(s)) ELSE s

RECURSIVE TrimEnd(_)
TrimEnd(s) ==
    IF s # <<>> /\ s[Len(s)] \in Whitespace THEN TrimEnd(SubSeq(s, 1, Len(s) - 1)) ELSE s

\* String.prototype.trim (lines 242, 895).
Trim(s) == TrimEnd(TrimStart(s))

Includes(s, c) == \E i \in 1..Len(s) : s[i] = c

\* An error text: a fixed wording, the status message or node error it quotes,
\* and the tool output it quotes. NoError is the empty string.
ErrorText(head, errorMsg, text) == [head |-> head, errorMsg |-> errorMsg, text |-> text]
NoError == ErrorText("", "", <<>>)

\* getStandardDisabledErrorMsg (lines 224-245); the texts used here never hold
\* the usage hint that line 239 removes.
GetStandardDisabledErrorMsg(standard, type, stdout, stderr) ==
    LET output == IF stdout # <<>> THEN stdout ELSE stderr
    IN  ErrorText(IF type = "phpcs"
                  THEN "PHPCS is disabled for the coding standard, and is configured to be PHPCBF-only."
                  ELSE "PHPCBF is disabled for the coding standard, and is configured to be PHPCS-only.",
                  standard.path, Trim(output))

\* nodeErrors (lines 899-903); "undefined" for a code that is not a key.
NodeErrors(code) ==
    CASE code = "ERR_OPERATION_FAILED" -> "A general script execution error occurred."
      [] code = "ENOENT" -> "No such file or directory"
      [] code = "ETIMEDOUT" -> "Script execution timed out."
      [] OTHER -> "undefined"

\* fixer.error of spawn.sync: "none" when it is undefined, else its code.
FixerErrors == {"none", "ETIMEDOUT", "ENOENT", "EACCES"}

\* fixer.status of spawn.sync: null or the exit code of the tool.
FixerStatuses == {Null} \cup {Num(k) : k \in {0, 1, 2, 3, 4, 5, 7, 16, 255}}

Resolved(text, message) ==
    [kind |-> "resolved", text |-> text, error |-> NoError, info |-> message]
Rejected(error) ==
    [kind |-> "rejected", text |-> <<>>, error |-> error, info |-> "none"]

\* The standards format is called with: none resolved, a missing file, an
\* unreadable file, and a ruleset with one attribute.
FixerStandards ==
    {standard \in Standards : ~standard.exists \/ standard.readThrows
                                  \/ Cardinality(standard.content) = 1}

\* The inputs of one format call. pre: which of the early returns of lines
\* 840-853 applies ("ok": none). stderr is read at lines 910 and 972 without a
\* declaration in the file; it is taken to be the text the tool wrote to stderr.
FormatInputs ==
    [pre : {"noFolder", "notPhp", "fixerDisabled"}, debug : BOOLEAN,
     fileText : {<<>>}, stdout : {<<>>}, stderr : {<<>>}, status : {Null},
     fixerError : {"none"}, version : {SnifferVersion([active |-> TRUE, inFolder |-> TRUE, major |-> 3])},
     standard : {[path |-> "", exists |-> FALSE, readThrows |-> FALSE, content |-> {}]}]
    \cup [pre : {"ok"}, debug : BOOLEAN, fileText : FileTexts, stdout : FixerStdouts,
          stderr : FixerStderrs, status : FixerStatuses, fixerError : FixerErrors,
          version : VersionResults, standard : FixerStandards]

\* The switch of format (lines 914-1009) on the mapped exit code.
FormatSwitch(in, exitcode, errorMsg, fixed, disabled) ==
    LET nodeInternal == ErrorText("FIXER - Node Internal Error: ", NodeErrors(in.fixerError), <<>>)
        changed == fixed # <<>> /\ fixed # in.fileText
        error ==
            CASE exitcode = Str(-1) ->
                     IF in.fixerError = "ETIMEDOUT"
                     THEN ErrorText("FIXER: Formatting the document timed out.", "", <<>>)
                     ELSE IF in.fixerError = "ENOENT"
                     THEN ErrorText("FIXER: executablePath not found.", "", <<>>)
                     ELSE ErrorText(NodeErrors("ERR_OPERATION_FAILED"), "", <<>>)
              [] exitcode = Num(0) -> NoError
              [] exitcode = Num(5) ->
                     IF ~changed /\ in.fixerError # "none" THEN nodeInternal ELSE NoError
              [] OTHER ->
                     IF disabled
                     THEN GetStandardDisabledErrorMsg(in.standard, "phpcbf", fixed, in.stderr)
                     ELSE IF fixed # <<>> THEN ErrorText("FIXER: ", errorMsg, fixed)
                     ELSE IF in.fixerError # "none" THEN nodeInternal
                     ELSE ErrorText("FATAL: Unknown error occurred.", "", <<>>)
        result == IF exitcode \in {Num(0), Num(5)} /\ changed THEN fixed ELSE <<>>
        message ==
            CASE exitcode = Num(0) ->
                     IF changed THEN "All fixable errors were fixed correctly."
                     ELSE "No fixable errors were found."
              [] exitcode = Num(5) /\ changed -> "FIXER: Failed to fix some auto-fixable errors"
              [] OTHER -> ""
        \* lines 996-1008: the message is shown only when debugging
    IN  IF error # NoError THEN Rejected(error)
        ELSE Resolved(result, IF in.debug THEN message ELSE "none")

\* format (lines 837-1009): what the returned promise settles to, with the
\* values the claims speak of.
Format(in) ==
    LET fixed == Trim(in.stdout)
        exitcode == GetMappedExitCode(in.version, in.status, "fixer")
        errorMsg == GetErrorMsg(exitcode, "fixer", FALSE)
        disabled == IsStandardDisabled(in.standard, "phpcbf",
                                       Includes(fixed, NoSniffsText),
                                       Includes(in.stderr, NoSniffsText))
    IN  [exitcode |-> exitcode, errorMsg |-> errorMsg, fixed |-> fixed,
         disabled |-> disabled,
         result |->
            IF in.pre = "fixerDisabled"
            THEN Resolved(<<>>, "Fixer is disable for this workspace or PHPCBF was not found for this workspace.")
            ELSE IF in.pre # "ok" THEN Resolved(<<>>, "none")
            ELSE IF exitcode = Threw
            THEN Rejected(ErrorText("TypeError", "", <<>>))
            ELSE FormatSwitch(in, exitcode, errorMsg, fixed, disabled)]

\* The ranges a formatting request can name: the whole document or a selection
\* within it.
Ranges == {"document", "selection"}

\* documentFullRange (lines 818-822).
DocumentFullRange == "document"

\* isFullDocumentRange (lines 830-831).
IsFullDocumentRange(range) == range = DocumentFullRange

\* registerFixerAsDocumentProvider (lines 1028-1048), given what format settled
\* to. The then-callback throws after resolve as well (line 1041 follows the if
\* of line 1038 without a return), so the catch callback runs in every case; its
\* reject() has no effect on a promise already resolved. promise: how the
\* provider's promise settles; edit: the new text of the one TextEdit over the
\* full range ("none": no edit); shown: what window.showErrorMessage is given.
\* editRange is the range of that edit; isFullDocument is what format is given.
RegisterFixerAsDocumentProvider(range, result) ==
    LET fullRange == DocumentFullRange
        isFullDocument == IsFullDocumentRange(range)
    IN  IF result.kind = "rejected"
        THEN [promise |-> "rejected", edit |-> "none", editRange |-> "none",
              isFullDocument |-> isFullDocument, shown |-> result.error]
        ELSE [promise |-> IF result.text # <<>> THEN "resolved" ELSE "rejected",
              edit |-> IF result.text # <<>> THEN result.text ELSE "none",
              editRange |-> IF result.text # <<>> THEN fullRange ELSE "none",
              isFullDocument |-> isFullDocument,
              shown |-> ErrorText("PHPCBF returned an empty document", "", <<>>)]

\* ------------------------------------------------ calls of the fixer side
\* The functions below keep no state between calls except settingsCache and the
\* entry of 0 in errorMsgs, which no result depends on here; each call is an
\* event of its own whose inputs and result `last` records.
MappedExitCodeCall(editor, code, type) ==
    /\ last = NoEvent
    /\ last' = [op |-> "getMappedExitCode", version |-> SnifferVersion(editor),
                code |-> code, type |-> type,
                result |-> GetMappedExitCode(SnifferVersion(editor), code, type),
                logged |-> LogsUndeterminedVersion(SnifferVersion(editor))]
    /\ UNCHANGED <<settingsCache, subscribed, textDocuments, diagnosticCollection,
                   runnerCancellations, runners, validatorListener, listeners,
                   microtasks, loads, configChanges>>

StandardDisabledCall(standard, type, stdout, stderr) ==
    /\ last = NoEvent
    /\ last' = [op |-> "isStandardDisabled", standard |-> standard, type |-> type,
                stdout |-> stdout, stderr |-> stderr,
                result |-> IsStandardDisabled(standard, type,
                                              Includes(stdout, NoSniffsText),
                                              Includes(stderr, NoSniffsText))]
    /\ UNCHANGED <<settingsCache, subscribed, textDocuments, diagnosticCollection,
                   runnerCancellations, runners, validatorListener, listeners,
                   microtasks, loads, configChanges>>

\* A formatting request: the provider calls format (line 1036) and handles what
\* it settles to.
FormatCall(in, range) ==
    /\ last = NoEvent
    /\ LET out == Format(in)
       IN  last' = [op |-> "format", pre |-> in.pre, debug |-> in.debug,
                    fileText |-> in.fileText, stdout |-> in.stdout,
                    status |-> in.status, fixerError |-> in.fixerError,
                    version |-> in.version, exitcode |-> out.exitcode,
                    errorMsg |-> out.errorMsg, disabled |-> out.disabled,
                    result |-> out.result, range |-> range,
                    provider |-> RegisterFixerAsDocumentProvider(range, out.result)]
    /\ UNCHANGED <<settingsCache, subscribed, textDocuments, diagnosticCollection,
                   runnerCancellations, runners, validatorListener, listeners,
                   microtasks, loads, configChanges>>

\* The versions of the tool that the folder of the document of a run can have
\* configured (executablePathCS of its resourceConf).
FolderMajors == {3, 4}

\* getMappedExitCode as a run on a document calls it (sniffer.ts lines 501 and
\* 905): the document's own folder has a tool of version folderMajor, and
\* `editor` is the active editor at that moment with the version of the tool of
\* its folder. The call passes the exit code and the type only; snifferVersion
\* (lines 691-692) reads the active editor.
MappedExitCodeOfRun(folderMajor, editor, code, type) ==
    /\ last = NoEvent
    /\ last' = [op |-> "runExitCode", folderMajor |-> folderMajor,
                version |-> SnifferVersion(editor), code |-> code, type |-> type,
                result |-> GetMappedExitCode(SnifferVersion(editor), code, type)]
    /\ UNCHANGED <<settingsCache, subscribed, textDocuments, diagnosticCollection,
                   runnerCancellations, runners, validatorListener, listeners,
                   microtasks, loads, configChanges>>

NextErrors ==
    \/ /\ last = NoEvent
       /\ \E editor \in Editors, code \in FixerStatuses, type \in {"fixer", "sniffer"} :
              MappedExitCodeCall(editor, code, type)
    \/ /\ last = NoEvent
       /\ \E folderMajor \in FolderMajors, editor \in Editors, code \in FixerStatuses,
             type \in {"fixer", "sniffer"} :
              MappedExitCodeOfRun(folderMajor, editor, code, type)
    \/ /\ last = NoEvent
       /\ \E standard \in Standards, type \in {"phpcs", "phpcbf"},
             stdout \in FixerStdouts, stderr \in FixerStderrs :
              StandardDisabledCall(standard, type, stdout, stderr)
    \/ HandlerReturns

\* Calls of getMappedExitCode and isStandardDisabled.
SpecErrors == Init /\ [][NextErrors]_vars

NextFormat ==
    \/ /\ last = NoEvent
       /\ \E in \in FormatInputs, range \in Ranges : FormatCall(in, range)
    \/ HandlerReturns

\* Calls of format.
SpecFormat == Init /\ [][NextFormat]_vars

\* ---------------------------------------- runs of the 'close' handler alone
\* Reports with more messages and positions than the runs of Spec carry.
ReportMsgs == [line : 1..MaxReportPos, column : 1..MaxReportPos]

ReportStdouts ==
    [kind : {"json"}, messages : SeqsUpTo(ReportMsgs, MaxReportMsgs), throws : BOOLEAN,
     noSniffs : {FALSE}]

\* The exit code the 'close' event carries: null or a number.
ExitCodes == FixerStatuses

\* One run of the 'close' handler (lines 497-584) for a runner whose token is
\* cancelled or not, with the exit code, the streams, the standard and the tool
\* version of the run: the code is mapped for the log (lines 501-505) and the
\* handler goes on without it.
SnifferCloseCall(cancelled, stdout, stderrHas, standard, code, version) ==
    /\ last = NoEvent
    /\ LET runner == [NewRunner("d1") EXCEPT !.phase = "running", !.cancelled = cancelled]
           disabled == IsStandardDisabled(standard, "phpcs", stdout.noSniffs, stderrHas)
           out == CloseOutcome(runner, stdout, disabled)
       IN  last' = [op |-> "snifferClose", cancelled |-> cancelled, stdout |-> stdout,
                    stderrHas |-> stderrHas, disabled |-> disabled,
                    mapped |-> GetMappedExitCode(version, code, "sniffer"),
                    outcome |-> out.outcome, shown |-> out.shown,
                    published |-> out.published,
                    diagnostics |-> IF out.published THEN ParseDiagnostics(stdout) ELSE <<>>]
    /\ UNCHANGED <<settingsCache, subscribed, textDocuments, diagnosticCollection,
                   runnerCancellations, runners, validatorListener, listeners,
                   microtasks, loads, configChanges>>

NextClose ==
    \/ /\ last = NoEvent
       /\ \E cancelled \in BOOLEAN, stdout \in Stdouts, stderrHas \in BOOLEAN,
             standard \in Standards, code \in ExitCodes, version \in VersionResults :
              SnifferCloseCall(cancelled, stdout, stderrHas, standard, code, version)
    \/ /\ last = NoEvent
       /\ \E stdout \in ReportStdouts, stderrHas \in BOOLEAN, standard \in Standards :
              SnifferCloseCall(FALSE, stdout, stderrHas, standard, Num(0),
                               SnifferVersion([active |-> TRUE, inFolder |-> TRUE, major |-> 3]))
    \/ HandlerReturns

\* Runs of the 'close' handler of validate: with every exit code and version on
\* the stdouts of Spec, and, for an uncancelled run of a 3.x tool that exited
\* with 0, on the larger reports.
SpecClose == Init /\ [][NextClose]_vars

\* ------------------------------------------------- the command line arguments
\* An argument is a sequence of pieces of text. The three option names below are
\* the texts the filters search for with indexOf; no other piece, and no
\* concatenation of other pieces, holds one of them.
OptionNames == {"--report", "--standard", "--stdin-path"}

\* The arguments a user may configure: each piece alone, an option with a value,
\* and "-q-s", which holds "-q" without being equal to it.
UserArgs ==
    {<<piece>> : piece \in OptionNames \cup {"-q", "-", "-s", "=x"}}
    \cup {<<name, "=x">> : name \in OptionNames}
    \cup {<<"-q", "-s">>}

ArgLists == SeqsUpTo(UserArgs, MaxArgs)

\* The resolved standard ('' when there is none) and the document's file name.
StandardPaths == {"", "phpcs.xml"}
FileName == "file.php"

Quoted(name, value) == <<name, "=", "\"", value, "\"">>

\* Mutant of SnifferAdditionalArguments: '--report' is not looked for.
SnifferAdditionalArgumentsKeepReport(arguments) ==
    SelectSeq(arguments,
              LAMBDA arg : /\ ~Includes(arg, "--standard")
                           /\ ~Includes(arg, "--stdin-path")
                           /\ arg # <<"-q">>
                           /\ arg # <<"-">>)

\* The filter of validate (lines 438-450).
SnifferAdditionalArguments(arguments) ==
    SelectSeq(arguments,
              LAMBDA arg : /\ ~Includes(arg, "--report")
                           /\ ~Includes(arg, "--standard")
                           /\ ~Includes(arg, "--stdin-path")
                           /\ arg # <<"-q">>
                           /\ arg # <<"-">>)

\* getArgs of the sniffer (lines 383-419).
SnifferGetArgs(standard, additionalArguments) ==
    <<<<"--report", "=json">>, <<"-q">>>>
    \o (IF standard # "" THEN <<Quoted("--standard", standard)>> ELSE <<>>)
    \o <<Quoted("--stdin-path", FileName), <<"-">>>>
    \o additionalArguments

\* The filter of format (lines 856-867).
FixerAdditionalArguments(arguments) ==
    SelectSeq(arguments,
              LAMBDA arg : /\ ~Includes(arg, "--standard")
                           /\ ~Includes(arg, "--stdin-path")
                           /\ arg # <<"-q">>
                           /\ arg # <<"-">>)

\* getArgs of the fixer (lines 771-811).
FixerGetArgs(standard, additionalArguments) ==
    <<<<"-q">>>>
    \o (IF standard # "" THEN <<Quoted("--standard", standard)>> ELSE <<>>)
    \o <<Quoted("--stdin-path", FileName)>>
    \o additionalArguments
    \o <<<<"-">>>>

\* validate builds the arguments of phpcs (lines 438-466).
SnifferArgsCall(standard, arguments) ==
    /\ last = NoEvent
    /\ last' = [op |-> "args", tool |-> "phpcs", standard |-> standard,
                arguments |-> arguments,
                lintArgs |-> SnifferGetArgs(standard, SnifferAdditionalArguments(arguments))]
    /\ UNCHANGED <<settingsCache, subscribed, textDocuments, diagnosticCollection,
                   runnerCancellations, runners, validatorListener, listeners,
                   microtasks, loads, configChanges>>

\* format builds the arguments of phpcbf (lines 856-875).
FixerArgsCall(standard, arguments) ==
    /\ last = NoEvent
    /\ last' = [op |-> "args", tool |-> "phpcbf", standard |-> standard,
                arguments |-> arguments,
                lintArgs |-> FixerGetArgs(standard, FixerAdditionalArguments(arguments))]
    /\ UNCHANGED <<settingsCache, subscribed, textDocuments, diagnosticCollection,
                   runnerCancellations, runners, validatorListener, listeners,
                   microtasks, loads, configChanges>>

NextArgs ==
    \/ /\ last = NoEvent
       /\ \E standard \in StandardPaths, arguments \in ArgLists :
              SnifferArgsCall(standard, arguments)
    \/ /\ last = NoEvent
       /\ \E standard \in StandardPaths, arguments \in ArgLists :
              FixerArgsCall(standard, arguments)
    \/ HandlerReturns

\* The argument lists validate and format build.
SpecArgs == Init /\ [][NextArgs]_vars

\* ================================================================== claims
InFlight(j) == runners[j].phase \in {"resolving", "running"}

LiveRunners(d) ==
    {j \in 1..Len(runners) : runners[j].doc = d /\ InFlight(j) /\ ~runners[j].cancelled}

\* C1: in every reachable state each document has at most one live (in flight,
\* not cancelled) runner, it is the one the job map holds, and every other
\* runner in flight for the document has been cancelled and disposed.
C1_AtMostOneLiveJob ==
    \A d \in Docs :
        /\ Cardinality(LiveRunners(d)) <= 1
        /\ \A j \in 1..Len(runners) :
              (runners[j].doc = d /\ InFlight(j) /\ runnerCancellations[d] # j)
                  => (runners[j].cancelled /\ runners[j].disposed)

\* C1 witness: a document with two runs in flight, the older one cancelled and
\* disposed, the newer one registered in the job map.
C1_Witness ==
    \E d \in Docs : \E a, b \in 1..Len(runners) :
        /\ a < b
        /\ runners[a].doc = d /\ runners[b].doc = d
        /\ InFlight(a) /\ InFlight(b)
        /\ runners[a].cancelled /\ runners[a].disposed
        /\ ~runners[b].cancelled /\ runnerCancellations[d] = b

\* C2: the close handler of a run that was superseded by a later run for the same
\* document never writes the document's diagnostics: the entry stays what it was.
C2_SupersededNeverPublishes ==
    (last.op = "close" /\ last.superseded)
        => (~last.published /\ diagnosticCollection[last.doc] = last.before)

\* C2 witness: the superseded run closes with a JSON report after the newer run
\* has already published.
C2_Witness ==
    /\ last.op = "close" /\ last.superseded /\ last.kind = "json"
    /\ diagnosticCollection[last.doc].has
    /\ runnerCancellations[last.doc] = 0

\* C3 (as claimed): the completion of a cancelled run neither publishes
\* diagnostics nor shows any message, the disabled-standard message included.
C3_CancelledCompletionIsSilent ==
    (last.op = "close" /\ last.cancelled) => (~last.published /\ last.shown = "none")

\* C4 (as claimed): a run that is not cancelled and ends in a report that does
\* not parse leaves the diagnostics published before it unchanged.
C4_MalformedReportKeepsDiagnostics ==
    (last.op = "close" /\ ~last.cancelled /\ last.outcome = "rejected"
        /\ last.before.items # <<>>)
        => diagnosticCollection[last.doc] = last.before

\* C5 (as claimed): the completion of a run for a document that has been closed
\* publishes nothing, so a closed document has no diagnostics.
C5_ClosedDocumentStaysEmpty ==
    /\ (last.op = "close" /\ last.doc \notin textDocuments) => ~last.published
    /\ \A d \in Docs \ textDocuments : ~diagnosticCollection[d].has

\* C6: a burst of edits to one document leads to exactly one invocation of
\* validate, for that document, and not before the delay has elapsed since the
\* last edit of the burst; while the timer is pending the burst has started no run.
C6_DebounceCoalescing ==
    /\ \A i \in 1..Len(listeners) : listeners[i].pending => listeners[i].burstRuns = 0
    /\ (last.op = "timer" /\ Cardinality(last.docs) = 1)
          => /\ last.runs = 1
             /\ last.gap >= last.wait
             /\ last.docs = {last.doc}
             /\ microtasks = <<[op |-> "validate", doc |-> last.doc]>>

\* C6 witness: the timer expires for a burst of edits to one document in which a
\* later edit restarted the running timer.
C6_Witness ==
    /\ last.op = "timer" /\ Cardinality(last.docs) = 1 /\ last.restarted
    /\ last.runs = 1 /\ last.gap = last.wait


\* C7: for a 3.x tool version getMappedExitCode maps the raw codes 0, 1, 2, 3 to
\* 0, 2, 1, 16 for the sniffer and to 0, 0, 5, 16 for the fixer.
Legacy(type) ==
    IF type = "sniffer" THEN <<Num(0), Num(2), Num(1), Num(16)>>
    ELSE <<Num(0), Num(0), Num(5), Num(16)>>

C7_LegacyMapping ==
    (/\ last.op = "getMappedExitCode"
     /\ last.version = [kind |-> "string", major |-> 3]
     /\ last.code \in {Num(0), Num(1), Num(2), Num(3)})
        => last.result = Legacy(last.type)[last.code.v + 1]

C7_Witness ==
    /\ last.op = "getMappedExitCode"
    /\ last.version = [kind |-> "string", major |-> 3]
    /\ last.type = "fixer"
    /\ last.code = Num(2)
    /\ last.result = Num(5)

\* C8 as stated: with a ruleset file containing phpcbf-only="true" and output
\* containing "No sniffs were registered", isStandardDisabled returns true for
\* phpcbf and false for phpcs.
OutputHasNoSniffs ==
    Includes(last.stdout, NoSniffsText) \/ Includes(last.stderr, NoSniffsText)

C8_AsStated ==
    (/\ last.op = "isStandardDisabled"
     /\ last.standard.exists
     /\ ~last.standard.readThrows
     /\ "phpcbf-only=\"true\"" \in last.standard.content
     /\ OutputHasNoSniffs)
        => (last.result <=> last.type = "phpcbf")

\* C8 amended: with an existing, readable ruleset file containing
\* phpcbf-only="true" and output containing "No sniffs were registered",
\* isStandardDisabled returns true for phpcs; for phpcbf it returns true exactly
\* when the file also contains phpcs-only="true" or phpcbf-only="false".
C8_DisabledForTheOtherTool ==
    (/\ last.op = "isStandardDisabled"
     /\ last.standard.exists
     /\ ~last.standard.readThrows
     /\ "phpcbf-only=\"true\"" \in last.standard.content
     /\ OutputHasNoSniffs)
        => /\ last.type = "phpcs" => last.result
           /\ last.type = "phpcbf" =>
                  (last.result <=> \/ "phpcs-only=\"true\"" \in last.standard.content
                                   \/ "phpcbf-only=\"false\"" \in last.standard.content)

C8_Witness ==
    /\ last.op = "isStandardDisabled"
    /\ last.standard.content = {"phpcbf-only=\"true\""}
    /\ last.stdout = <<>>
    /\ last.stderr = <<NoSniffsText>>
    /\ last.type = "phpcbf"
    /\ ~last.result

\* C9: under status NoErrors, format resolves to no replacement text when the
\* fixer's output equals the document text and to exactly the fixer's output when
\* it differs, whatever whitespace the texts start or end with.
C9_ReconciliationUnderNoErrors ==
    (/\ last.op = "format"
     /\ last.pre = "ok"
     /\ last.exitcode = Num(0))
        => /\ last.result.kind = "resolved"
           /\ last.result.text = IF last.stdout = last.fileText THEN <<>> ELSE last.stdout

\* C10: when the mapped status is neither no-status, 0 nor a partial-fix status
\* (4, 5, 7), the standard is not disabled and the fixer wrote no output, format
\* rejects with a message that carries getErrorMsg of that status.
C10_FailureCarriesMappedMessage ==
    (/\ last.op = "format"
     /\ last.pre = "ok"
     /\ last.exitcode.t = "number"
     /\ last.exitcode.v \notin {-1, 0, 4, 5, 7}
     /\ ~last.disabled
     /\ last.stdout = <<>>)
        => /\ last.result.kind = "rejected"
           /\ last.result.error.errorMsg = GetErrorMsg(last.exitcode, "fixer", TRUE)

\* C11: for each partial-fix status (4, 5, 7) format resolves to the fixer's text,
\* as format reads it, whenever that text is not empty and differs from the
\* document, and otherwise rejects with a message that is not empty.
C11_PartialFixReplacesOrFails ==
    (/\ last.op = "format"
     /\ last.pre = "ok"
     /\ last.exitcode \in {Num(4), Num(5), Num(7)})
        => IF Trim(last.stdout) # <<>> /\ Trim(last.stdout) # last.fileText
           THEN last.result.kind = "resolved" /\ last.result.text = Trim(last.stdout)
           ELSE last.result.kind = "rejected" /\ last.result.error # NoError

\* C12: when the fixer process ended without an exit status and the standard is
\* found disabled for phpcbf, format rejects with the message of
\* getStandardDisabledErrorMsg, whatever snifferVersion yields.
C12_NoStatusDisabledExplained ==
    (/\ last.op = "format"
     /\ last.pre = "ok"
     /\ last.status = Null
     /\ last.disabled)
        => /\ last.result.kind = "rejected"
           /\ last.result.error.head =
                  "PHPCBF is disabled for the coding standard, and is configured to be PHPCS-only."

\* C13: a format request that ends with status 0 and nothing to change shows no
\* error message, and the provider calls window.showErrorMessage only when
\* format rejected.
C13_NoFixIsNotAnError ==
    (last.op = "format" /\ last.pre = "ok")
        => /\ (/\ last.exitcode = Num(0)
               /\ last.result.kind = "resolved"
               /\ last.result.text = <<>>) => last.provider.shown = NoError
           /\ last.provider.shown # NoError => last.result.kind = "rejected"

\* C14: a configuration change queues a validation of every open document, and
\* once the listener has been registered anew no debounce timer of a disposed
\* listener invokes validate.
C14_ConfigChangeSwitchesTrigger ==
    /\ (last.op = "refresh" /\ last.kind = "config") =>
           \A d \in textDocuments :
               \E k \in 1..Len(microtasks) : microtasks[k] = [op |-> "validate", doc |-> d]
    /\ last.op = "timer" => ~last.disposed

\* A step triggers a run for d: it calls validate(d), which is queued at its
\* first await, or validate registers a new runner for d.
Triggered(d) ==
    \/ /\ Len(microtasks') > Len(microtasks)
       /\ \E k \in (Len(microtasks) + 1)..Len(microtasks') :
              microtasks'[k] = [op |-> "validate", doc |-> d]
    \/ /\ Len(runners') = Len(runners) + 1
       /\ runners'[Len(runners')].doc = d

\* C15 as stated: a step that triggers a run for a document with a run in flight
\* leaves the document's published diagnostics exactly as they were.
C15_TriggerKeepsDiagnostics ==
    [][\A d \in Docs :
          (Triggered(d) /\ LiveRunners(d) # {})
              => diagnosticCollection'[d] = diagnosticCollection[d]]_vars

\* C15 amended: a trigger by open, save or debounced edit leaves the published
\* diagnostics of the document as they were, and a refresh (configuration or
\* workspace-folder change) leaves the document without published diagnostics.
C15_OnlyRefreshClearsDiagnostics ==
    [][\A d \in Docs :
          (Triggered(d) /\ LiveRunners(d) # {})
              => IF last'.op = "refresh"
                 THEN diagnosticCollection'[d] = NoEntry
                 ELSE diagnosticCollection'[d] = diagnosticCollection[d]]_vars

\* C15 witness: a refresh has cleared the published diagnostics of a document
\* that has a run in flight, and has queued a new validation of it.
C15_Witness ==
    /\ last.op = "refresh"
    /\ \E d \in last.docs :
          /\ LiveRunners(d) # {}
          /\ ~diagnosticCollection[d].has
          /\ \E k \in 1..Len(microtasks) : microtasks[k] = [op |-> "validate", doc |-> d]

\* C16: a run that is not cancelled, whose exit code maps to 16 (processing
\* error) and whose standard is not disabled shows an error message, whether the
\* tool wrote its error text to stdout or left stdout empty.
C16_ProcessingErrorIsShown ==
    (/\ last.op = "snifferClose"
     /\ ~last.cancelled
     /\ last.mapped = Num(16)
     /\ ~last.disabled
     /\ last.stdout.kind \in {"text", "empty"})
        => last.shown # "none"

\* C17: whenever snifferVersion yields no 3.x or 4.x version (no active editor,
\* no workspace folder, no semantic version in the output, another major
\* version), getMappedExitCode does not fail, returns the code it was given
\* ('-1' standing for null) and logs that the version is undetermined.
C17_UndeterminedVersionIsFlagged ==
    (/\ last.op = "getMappedExitCode"
     /\ last.version.major \notin {3, 4})
        => /\ last.result # Threw
           /\ last.result = IF last.code = Null THEN Str(-1) ELSE last.code
           /\ last.logged

\* C18: when the report parses, the handler publishes one diagnostic per message,
\* in the order of the report, each at (line - 1, column - 1) of its message.
C18_PositionsAreZeroBased ==
    (/\ last.op = "snifferClose"
     /\ ~last.cancelled
     /\ last.stdout.kind = "json"
     /\ ~last.stdout.throws)
        => /\ last.published
           /\ Len(last.diagnostics) = Len(last.stdout.messages)
           /\ \A i \in 1..Len(last.stdout.messages) :
                  /\ last.diagnostics[i].line = last.stdout.messages[i].line - 1
                  /\ last.diagnostics[i].character = last.stdout.messages[i].column - 1

\* C18 witness: a report of two messages at different positions is published.
C18_Witness ==
    /\ last.op = "snifferClose"
    /\ ~last.cancelled
    /\ last.outcome = "resolved"
    /\ last.stdout.messages = <<[line |-> 3, column |-> 1], [line |-> 1, column |-> 2]>>
    /\ last.diagnostics = <<[line |-> 2, character |-> 0], [line |-> 0, character |-> 1]>>

\* C19: phpcs is given --report=json, -q, --standard="<path>" when a standard
\* was resolved, --stdin-path="<file>", - and then the user's arguments; phpcbf
\* is given -q, --standard, --stdin-path, the user's arguments and then -. Of the
\* user's arguments those holding --standard or --stdin-path (for phpcs also
\* --report) or equal to -q or - are left out, the others kept in order, so the
\* built list holds each of these options once at most.
Reserved(tool) ==
    IF tool = "phpcs" THEN {"--report", "--standard", "--stdin-path"}
    ELSE {"--standard", "--stdin-path"}

Dropped(arg, tool) ==
    \/ \E name \in Reserved(tool) : \E i \in 1..Len(arg) : arg[i] = name
    \/ arg \in {<<"-q">>, <<"-">>}

RECURSIVE Kept(_, _)
Kept(arguments, tool) ==
    IF arguments = <<>> THEN <<>>
    ELSE IF Dropped(Head(arguments), tool) THEN Kept(Tail(arguments), tool)
    ELSE <<Head(arguments)>> \o Kept(Tail(arguments), tool)

Occurrences(args, name) ==
    Cardinality({i \in 1..Len(args) : \E k \in 1..Len(args[i]) : args[i][k] = name})

C19_ArgumentConstruction ==
    last.op = "args" =>
        LET standardArg == IF last.standard = "" THEN <<>>
                           ELSE <<<<"--standard", "=", "\"", last.standard, "\"">>>>
            stdinArg == <<"--stdin-path", "=", "\"", FileName, "\"">>
            kept == Kept(last.arguments, last.tool)
        IN  /\ last.tool = "phpcs" =>
                   last.lintArgs = <<<<"--report", "=json">>, <<"-q">>>> \o standardArg
                                       \o <<stdinArg, <<"-">>>> \o kept
            /\ last.tool = "phpcbf" =>
                   last.lintArgs = <<<<"-q">>>> \o standardArg \o <<stdinArg>> \o kept
                                       \o <<<<"-">>>>
            /\ \A name \in Reserved(last.tool) : Occurrences(last.lintArgs, name) <= 1
            /\ Cardinality({i \in 1..Len(last.lintArgs) : last.lintArgs[i] = <<"-q">>}) = 1
            /\ Cardinality({i \in 1..Len(last.lintArgs) : last.lintArgs[i] = <<"-">>}) = 1

\* C19 witness: phpcs is given a standard, and of the user's arguments
\* --report=x is left out and -s kept.
C19_Witness ==
    /\ last.op = "args"
    /\ last.tool = "phpcs"
    /\ last.standard = "phpcs.xml"
    /\ last.arguments = <<<<"--report", "=x">>, <<"-s">>>>
    /\ last.lintArgs = <<<<"--report", "=json">>, <<"-q">>,
                         <<"--standard", "=", "\"", "phpcs.xml", "\"">>,
                         <<"--stdin-path", "=", "\"", "file.php", "\"">>,
                         <<"-">>, <<"-s">>>>

\* C20: the job map holds an entry for a document only while the run it names
\* is in flight and the document is open.
C20_EntryOnlyWhileInFlight ==
    \A d \in Docs :
        runnerCancellations[d] # 0
            => /\ InFlight(runnerCancellations[d])
               /\ d \in textDocuments

\* C21: a run that is not cancelled and whose stdout is empty publishes nothing
\* and leaves the document's diagnostics as they were, and a run publishes the
\* empty list only when its report parsed and holds no message.
C21_EmptyListOnlyFromParsedReport ==
    /\ (last.op = "close" /\ ~last.cancelled /\ last.kind = "empty")
           => (~last.published /\ diagnosticCollection[last.doc] = last.before)
    /\ (last.op = "close" /\ last.published /\ diagnosticCollection[last.doc].items = <<>>)
           => (last.kind = "json" /\ last.outcome = "resolved")

ContentDisablesQueriedMode ==
    \/ /\ last.type = "phpcs"
       /\ \/ "phpcs-only=\"false\"" \in last.standard.content
          \/ "phpcbf-only=\"true\"" \in last.standard.content
    \/ /\ last.type = "phpcbf"
       /\ \/ "phpcs-only=\"true\"" \in last.standard.content
          \/ "phpcbf-only=\"false\"" \in last.standard.content

\* C22: isStandardDisabled returns false whenever the standard path is empty,
\* the ruleset file does not exist or reading it throws, and it returns true
\* only when the file's content disables the queried tool and the text
\* "No sniffs were registered" occurs in stdout or in stderr.
C22_FailsOpen ==
    last.op = "isStandardDisabled" =>
        /\ (\/ last.standard.path = ""
            \/ ~last.standard.exists
            \/ last.standard.readThrows) => ~last.result
        /\ last.result =>
               /\ ContentDisablesQueriedMode
               /\ \/ Includes(last.stdout, NoSniffsText)
                  \/ Includes(last.stderr, NoSniffsText)

C22_Witness ==
    /\ last.op = "isStandardDisabled"
    /\ last.standard.path # ""
    /\ last.standard.exists
    /\ last.standard.readThrows
    /\ Includes(last.stderr, NoSniffsText)
    /\ ~last.result

\* C23: a missing exit status is mapped to the same value, the text '-1', under
\* a 3.x version, a 4.x version and an undetermined version, so that format
\* takes its branch for no status (case '-1') whenever the status is missing.
C23_NoStatusBranchUnderEveryVersion ==
    (/\ last.op = "format"
     /\ last.pre = "ok"
     /\ last.status = Null
     /\ \/ last.version.kind = "undefined"
        \/ last.version.kind = "string" /\ last.version.major \in {3, 4})
        => /\ last.exitcode = Str(-1)
           /\ last.result.kind = "rejected"
           /\ last.result.error.head \in
                  {"FIXER: Formatting the document timed out.",
                   "FIXER: executablePath not found.",
                   NodeErrors("ERR_OPERATION_FAILED")}

\* C24: debouncing is per document: when the delay has elapsed after edits to
\* two different open documents that followed each other within the delay, a
\* validation is started for each of the two documents.
C24_DebouncePerDocument ==
    (/\ last.op = "timer"
     /\ ~last.disposed
     /\ last.docs \subseteq textDocuments)
        => \A d \in last.docs :
               \E k \in 1..Len(microtasks) : microtasks[k] = [op |-> "validate", doc |-> d]

C26_CancelledRunDoesNotSpawn ==
    [][\A j \in 1..Len(runners) :
          (/\ j <= Len(runners')
           /\ runners[j].phase = "resolving"
           /\ runners'[j].phase = "running") => ~runners[j].cancelled]_vars

\* C27: once a configuration change has disabled the sniffer, no diagnostics are
\* published: the close handler of a run that was in flight at the refresh
\* finds its token cancelled or publishes nothing.
C27_DisabledSnifferPublishesNothing ==
    (last.op = "close" /\ last.doc \in textDocuments /\ ~settingsCache.snifferEnable)
        => (~last.published /\ diagnosticCollection[last.doc] = last.before)

\* C28: the exit code of a run on a document is mapped with the table of the
\* version of the tool configured for the document's own workspace folder,
\* whichever document of a workspace folder the active editor shows.
C28_MappingOfTheDocumentsFolder ==
    (last.op = "runExitCode" /\ last.version.kind = "string") =>
        last.result = GetMappedExitCode([kind |-> "string", major |-> last.folderMajor],
                                        last.code, last.type)

\* C29: when format returns a non-empty text, the provider resolves with one
\* edit that replaces the full range of the document with that text, whatever
\* range was requested, and shows no error message for the request.
C29_OneFullRangeEditAndNoError ==
    (/\ last.op = "format"
     /\ last.result.kind = "resolved"
     /\ last.result.text # <<>>)
        => /\ last.provider.promise = "resolved"
           /\ last.provider.edit = last.result.text
           /\ last.provider.editRange = DocumentFullRange
           /\ last.provider.shown = NoError

====
